---- MODULE Spec2Model ----
(***************************************************************************)
(* undump (src/src/main.rs): a pool of cooperative scan workers drains a   *)
(* shared path iterator (optionally wrapped in Batched), classifies every  *)
(* file, tallies Stats, and in --open-all mode forwards each classified    *)
(* file over a bounded futures mpsc channel to a decoding thread.          *)
(*                                                                         *)
(* One step of a worker is what one poll of its future executes: the code  *)
(* from one .await to the next.  The scan side runs on one thread, so such *)
(* a step is atomic; the decoding thread is a real thread and interleaves  *)
(* with it.                                                                *)
(***************************************************************************)
EXTENDS Integers, Sequences, FiniteSets

\* ------------------------------------------------------------------ bounds
\* The path source yields 0..MaxFiles entries.
MaxFiles == 3
\* Number of read_files futures (1 << 10 in process_all, scaled down).
NumWorkers == 2
\* Buffer argument of mpsc::channel (16 in process_all, scaled down).
ChanBuffer == 1
\* Batched::new is called with nr in 1..MaxNr (1 << 12 in Mode::run, scaled down).
MaxNr == 2
\* The command line has 0..MaxArgs arguments.
MaxArgs == 3
\* The runs checked for termination have sources of 0..MaxFairFiles entries.
MaxFairFiles == 2

Workers == 1..NumWorkers
\* Two of the values of image::ImageFormat.
Formats == {"Png", "Jpeg"}
\* Option::None of an iterator item; the paths of the source are 1..files.
None == 0
\* The arguments Mode::from_args knows, and one that is no flag.
RecurseFlags == {"--recurse", "-r"}
OpenAllFlags == {"--open-all", "-o"}
Tokens == RecurseFlags \cup OpenAllFlags \cup {"dir"}

VARIABLES
    argv,       \* std::env::args().skip(1), as the program was called
    args,       \* main's args: what is left of argv after the pop
    path,       \* main's path ("" before the pop)
    mpc,        \* main: "main", "from_args", "run", "scan", "no_dir", "usage", "fatal"
    mode,       \* Mode: "Dir", "Recurse" or "OpenAll" ("none" before from_args)
    files,      \* number of entries the underlying iterator yields
    nr,         \* the argument of Batched::new (0 in mode Dir)
    cap,        \* Batched.buf.capacity() (0 in mode Dir)
    iterPos,    \* entries already taken from the underlying iterator
    buf,        \* Batched.buf
    holder,     \* the worker holding the RefCell borrow of the supplier, or None
    pc,         \* per worker: "start", "open", "read", "flush", "done",
                \* "hung" (a file operation that never completes), "panic"
    cur,        \* per worker: the path it is working on, or None
    total,      \* Stats.total
    count,      \* Stats.count
    chan,       \* messages queued in the mpsc channel
    parkedQ,    \* the channel's parked_queue of sender tasks
    numSenders, \* live Sender handles of the channel
    isOpen,     \* the channel's is_open flag
    rpc,        \* open_all thread: "none", "recv", "decode", "term", "killed",
                \* "panicked"
    ritem,      \* the OpenWorkItem open_one is working on
    opc,        \* process_all: "join", "reported", "exited" ("none": not called)
    report,     \* what process_all printed
    pulled,     \* history: <<path, worker>> in the order the supplier handed them out
    outcome,    \* history: per path, what for_file found
    sent,       \* history: work items the channel accepted
    decoded,    \* history: the work items open_one was called with, in order
    decodeErr   \* history: some call of open_one returned Err

cmdline == <<argv, args, path, mpc>>
config == <<argv, args, path, mpc, mode, files, nr, cap>>
cursor == <<iterPos, buf, holder>>
stats == <<total, count>>
channel == <<chan, parkedQ, numSenders, isOpen>>
receiver == <<rpc, ritem, decoded, decodeErr>>
vars == <<argv, args, path, mpc, mode, files, nr, cap, iterPos, buf, holder, pc, cur, total, count, chan, parkedQ,
          numSenders, isOpen, rpc, ritem, opc, report, pulled, outcome, sent, decoded,
          decodeErr>>

\* ------------------------------------------------------------------ helpers
RECURSIVE NextPowerOfTwo(_)
NextPowerOfTwo(x) == IF x <= 1 THEN 1 ELSE 2 * NextPowerOfTwo((x + 1) \div 2)

\* VecDeque::with_capacity(nr).capacity(): "at least nr".  The standard library
\* allocates exactly nr; its ring buffer before Rust 1.67 allocated
\* max(nr + 1, 2).next_power_of_two() slots and reported one less.
Capacities(req) == {req, NextPowerOfTwo(IF req + 1 > 2 THEN req + 1 ELSE 2) - 1}

Min(a, b) == IF a < b THEN a ELSE b

ItemsOf(s) == {s[i][1] : i \in DOMAIN s}

EmptyCount == [t \in {} |-> 0]

RECURSIVE SumOver(_, _)
SumOver(f, S) ==
    IF S = {} THEN 0
    ELSE LET t == CHOOSE x \in S : TRUE IN f[t] + SumOver(f, S \ {t})

SumCounts(c) == SumOver(c, DOMAIN c)

\* ------------------------------------------------------------------ Stats
\* Mutant: the increment of total is lost.
Stats_file_Lost(t) == t

Stats_file(t) == t + 1

\* Mutant: insert(format, 1) in place of *entry(format).or_default() += 1.
Stats_add_Insert(c, format) ==
    [t \in DOMAIN c \cup {format} |-> IF t = format THEN 1 ELSE c[t]]

\* Mutant: *entry(format).or_insert(1) += 1, a fresh entry starts at 2.
Stats_add_InsertOne(c, format) ==
    IF format \in DOMAIN c
    THEN [c EXCEPT ![format] = @ + 1]
    ELSE [t \in DOMAIN c \cup {format} |-> IF t = format THEN 2 ELSE c[t]]

Stats_add(c, format) ==
    IF format \in DOMAIN c
    THEN [c EXCEPT ![format] = @ + 1]
    ELSE [t \in DOMAIN c \cup {format} |-> IF t = format THEN 1 ELSE c[t]]

\* ------------------------------------------------------------------ Batched
\* self.iter.by_ref().take(amount): the next entries of the source, in order.
Iter_take(pos, amount) ==
    [i \in 1..Min(amount, files - pos) |-> pos + i]

Iter_next(pos) ==
    IF pos < files
    THEN [item |-> pos + 1, buf |-> <<>>, pos |-> pos + 1]
    ELSE [item |-> None, buf |-> <<>>, pos |-> pos]

\* Mutant: the iterator is not advanced by the entries the reload took.
Batched_reload_NoAdvance(b, pos) ==
    [buf |-> b \o Iter_take(pos, cap - Len(b)), pos |-> pos]

\* Mutant: the reload takes one entry more than the free capacity.
Batched_reload_OneMore(b, pos) ==
    LET got == Iter_take(pos, cap - Len(b) + 1)
    IN  [buf |-> b \o got, pos |-> pos + Len(got)]

\* Mutant: the entries taken are pushed in reverse order.
Batched_reload_Reversed(b, pos) ==
    LET got == Iter_take(pos, cap - Len(b))
    IN  [buf |-> b \o [i \in 1..Len(got) |-> got[Len(got) + 1 - i]],
         pos |-> pos + Len(got)]

Batched_reload(b, pos) ==
    LET amount == cap - Len(b)
        got == Iter_take(pos, amount)
    IN  [buf |-> b \o got, pos |-> pos + Len(got)]

\* Mutant: after a reload the item is popped from the back of the buffer.
Batched_next_PopBack(b, pos) ==
    IF b # <<>>
    THEN [item |-> Head(b), buf |-> Tail(b), pos |-> pos]
    ELSE LET r == Batched_reload(b, pos)
         IN  IF r.buf # <<>>
             THEN [item |-> r.buf[Len(r.buf)],
                   buf |-> SubSeq(r.buf, 1, Len(r.buf) - 1), pos |-> r.pos]
             ELSE [item |-> None, buf |-> r.buf, pos |-> r.pos]

\* Mutant: no second pop_front, the call that reloads returns None.
Batched_next_NoSecondPop(b, pos) ==
    IF b # <<>>
    THEN [item |-> Head(b), buf |-> Tail(b), pos |-> pos]
    ELSE LET r == Batched_reload(b, pos)
         IN  [item |-> None, buf |-> r.buf, pos |-> r.pos]

Batched_next(b, pos) ==
    IF b # <<>>
    THEN [item |-> Head(b), buf |-> Tail(b), pos |-> pos]
    ELSE LET r == Batched_reload(b, pos)
         IN  IF r.buf # <<>>
             THEN [item |-> Head(r.buf), buf |-> Tail(r.buf), pos |-> r.pos]
             ELSE [item |-> None, buf |-> r.buf, pos |-> r.pos]

\* supplier.borrow_mut().next(): the iterator process_all was given.
Supplier_next ==
    IF mode = "Dir" THEN Iter_next(iterPos) ELSE Batched_next(buf, iterPos)

\* ------------------------------------------------------------------ channel
Offload == mode = "OpenAll"

Parked(w) == \E i \in DOMAIN parkedQ : parkedQ[i] = w

\* Mutant: the sender parks one message late.
ParkSelf_Late(numMessages) == numMessages > ChanBuffer + 1

\* Mutant: the sender never parks.
ParkSelf_Never(numMessages) == FALSE

\* do_send_b: the sender parks itself when the message it adds exceeds the buffer.
ParkSelf(numMessages) == numMessages > ChanBuffer

\* Mutant: every dropped handle closes the channel.
LastSender_Any(prev) == TRUE

\* Sender::drop: the handle that finds itself the last one closes the channel.
LastSender(prev) == prev = 1

\* Mutant: the receiver pops a message and unparks nobody.
UnparkOne_Nobody(q) == q

\* Receiver::next_message, unpark_one: the head of the parked queue is woken.
UnparkOne(q) == IF q # <<>> THEN Tail(q) ELSE q

DropSender ==
    IF Offload
    THEN /\ numSenders' = numSenders - 1
         /\ isOpen' = IF LastSender(numSenders) THEN FALSE ELSE isOpen
    ELSE UNCHANGED <<numSenders, isOpen>>

\* ------------------------------------------------------------------ Init
\* A command line that Mode::from_args maps to the mode.
ArgvOf(m) ==
    IF m = "Dir" THEN <<"dir">>
    ELSE IF m = "Recurse" THEN <<"-r", "dir">> ELSE <<"-o", "dir">>

\* The state when Mode::run has called process_all and the workers are collected.
Init ==
    /\ mode \in {"Dir", "Recurse", "OpenAll"}
    /\ argv = ArgvOf(mode)
    /\ args = SubSeq(argv, 1, Len(argv) - 1)
    /\ path = "dir"
    /\ mpc = "scan"
    /\ holder = None
    /\ files \in 0..MaxFiles
    /\ nr \in (IF mode = "Dir" THEN {0} ELSE 1..MaxNr)
    /\ cap \in (IF mode = "Dir" THEN {0} ELSE Capacities(nr))
    /\ iterPos = 0
    /\ buf = <<>>
    /\ pc = [w \in Workers |-> "start"]
    /\ cur = [w \in Workers |-> None]
    /\ total = 0
    /\ count = EmptyCount
    /\ chan = <<>>
    /\ parkedQ = <<>>
    /\ numSenders = IF Offload THEN NumWorkers + 1 ELSE 0
    /\ isOpen = Offload
    /\ rpc = IF Offload THEN "recv" ELSE "none"
    /\ ritem = <<>>
    /\ opc = "join"
    /\ report = [total |-> 0, count |-> EmptyCount]
    /\ pulled = <<>>
    /\ outcome = [i \in 1..files |-> "pending"]
    /\ sent = <<>>
    /\ decoded = <<>>
    /\ decodeErr = FALSE

\* ------------------------------------------------------------------ read_files
\* Mutant: if let Some(path) = supplier.borrow_mut().next() { .. }, where the
\* temporary RefMut lives to the end of the if-let, across the awaits of for_file.
BorrowAfterPull_IfLet(w) == w

\* let next = supplier.borrow_mut().next(); the temporary RefMut is dropped at
\* the end of the statement: nobody holds the borrow when the step goes on.
BorrowAfterPull(w) == None

\* The head of the loop of read_files, up to the first await of for_file:
\* pull, then either count the file and start opening it, or break.
LoopHead(w) ==
    IF holder \notin {None, w}
    THEN \* borrow_mut() on a RefCell that is borrowed: BorrowMutError, a panic.
         /\ pc' = [pc EXCEPT ![w] = "panic"]
         /\ UNCHANGED <<iterPos, buf, holder, total, pulled, cur, numSenders, isOpen>>
    ELSE LET r == Supplier_next
         IN  /\ iterPos' = r.pos
             /\ buf' = r.buf
             /\ IF r.item # None
                THEN /\ total' = Stats_file(total)
                     /\ pulled' = Append(pulled, <<r.item, w>>)
                     /\ cur' = [cur EXCEPT ![w] = r.item]
                     /\ pc' = [pc EXCEPT ![w] = "open"]
                     /\ holder' = BorrowAfterPull(w)
                     /\ UNCHANGED <<numSenders, isOpen>>
                ELSE /\ pc' = [pc EXCEPT ![w] = "done"]
                     /\ cur' = [cur EXCEPT ![w] = None]
                     /\ holder' = None
                     /\ UNCHANGED <<total, pulled>>
                     /\ DropSender

\* First poll of a worker.  FuturesUnordered polls the futures it was extended
\* with in queue order, so the first polls come in the order of the Vec.
Start(w) ==
    /\ opc = "join"
    /\ pc[w] = "start"
    /\ \A v \in Workers : v < w => pc[v] # "start"
    /\ LoopHead(w)
    /\ UNCHANGED <<config, count, chan, parkedQ, receiver, opc, report, outcome, sent>>

\* fs::File::open failed: for_file returns, the loop goes on.
OpenErr(w) ==
    /\ pc[w] = "open"
    /\ outcome' = [outcome EXCEPT ![cur[w]] = "noopen"]
    /\ LoopHead(w)
    /\ UNCHANGED <<config, count, chan, parkedQ, receiver, opc, report, sent>>

\* fs::File::open succeeded: the header read is awaited.
OpenOk(w) ==
    /\ pc[w] = "open"
    /\ pc' = [pc EXCEPT ![w] = "read"]
    /\ UNCHANGED <<config, cursor, cur, stats, channel, receiver, opc, report,
                   pulled, outcome, sent>>

\* The header was read (or not: the result is ignored) and no format was guessed.
Unrecognized(w) ==
    /\ pc[w] = "read"
    /\ outcome' = [outcome EXCEPT ![cur[w]] = "unrec"]
    /\ LoopHead(w)
    /\ UNCHANGED <<config, count, chan, parkedQ, receiver, opc, report, sent>>

\* Mutant: a failed send ends the worker (break out of the loop of read_files).
SendFailed_Break(w) ==
    /\ pc' = [pc EXCEPT ![w] = "done"]
    /\ cur' = [cur EXCEPT ![w] = None]
    /\ DropSender
    /\ UNCHANGED <<cursor, total, pulled>>

\* let _ = opener.send(..).await with the receiver gone: the error and the work
\* item are dropped, for_file returns and the loop goes on.
SendFailed(w) == LoopHead(w)

\* Mutant: count.add(format) sits in the else branch of if let Some(opener).
Recognized_CountElse(w) ==
    /\ pc[w] = "read"
    /\ \E format \in Formats :
        /\ outcome' = [outcome EXCEPT ![cur[w]] = format]
        /\ count' = IF Offload THEN count ELSE Stats_add(count, format)
        /\ IF ~Offload
           THEN /\ UNCHANGED <<chan, sent, parkedQ>>
                /\ LoopHead(w)
           ELSE IF isOpen
           THEN /\ chan' = Append(chan, <<cur[w], format>>)
                /\ sent' = Append(sent, <<cur[w], format>>)
                /\ IF ParkSelf(Len(chan) + 1)
                   THEN /\ parkedQ' = Append(parkedQ, w)
                        /\ pc' = [pc EXCEPT ![w] = "flush"]
                        /\ UNCHANGED <<cursor, cur, total, pulled, numSenders, isOpen>>
                   ELSE /\ UNCHANGED parkedQ
                        /\ LoopHead(w)
           ELSE /\ UNCHANGED <<chan, sent, parkedQ>>
                /\ SendFailed(w)
    /\ UNCHANGED <<config, receiver, opc, report>>

\* A format was guessed: count it, and with an opener send the work item.
Recognized(w) ==
    /\ pc[w] = "read"
    /\ \E format \in Formats :
        /\ outcome' = [outcome EXCEPT ![cur[w]] = format]
        /\ count' = Stats_add(count, format)
        /\ IF ~Offload
           THEN /\ UNCHANGED <<chan, sent, parkedQ>>
                /\ LoopHead(w)
           ELSE IF isOpen
           THEN /\ chan' = Append(chan, <<cur[w], format>>)
                /\ sent' = Append(sent, <<cur[w], format>>)
                /\ IF ParkSelf(Len(chan) + 1)
                   THEN /\ parkedQ' = Append(parkedQ, w)
                        /\ pc' = [pc EXCEPT ![w] = "flush"]
                        /\ UNCHANGED <<cursor, cur, total, pulled, numSenders, isOpen>>
                   ELSE /\ UNCHANGED parkedQ
                        /\ LoopHead(w)
           ELSE /\ UNCHANGED <<chan, sent, parkedQ>>
                /\ SendFailed(w)
    /\ UNCHANGED <<config, receiver, opc, report>>

\* The flush of opener.send(..) is ready: the sender is no longer parked
\* (or the channel is gone, which flush takes for flushed).
FlushDone(w) ==
    /\ pc[w] = "flush"
    /\ ~isOpen \/ ~Parked(w)
    /\ LoopHead(w)
    /\ UNCHANGED <<config, count, chan, parkedQ, receiver, opc, report, outcome, sent>>

\* ------------------------------------------------------------------ open_all
\* from.next() yields a message: pop it and unpark one parked sender.
RecvNext ==
    /\ rpc = "recv"
    /\ chan # <<>>
    /\ ritem' = Head(chan)
    /\ chan' = Tail(chan)
    /\ parkedQ' = UnparkOne(parkedQ)
    /\ decoded' = Append(decoded, Head(chan))
    /\ rpc' = "decode"
    /\ UNCHANGED <<config, cursor, pc, cur, stats, numSenders, isOpen, opc, report,
                   pulled, outcome, sent, decodeErr>>

\* open_one returned; its result is dropped.
DecodeDone ==
    /\ rpc = "decode"
    /\ \E ok \in BOOLEAN : decodeErr' = (decodeErr \/ ~ok)
    /\ ritem' = <<>>
    /\ rpc' = "recv"
    /\ UNCHANGED <<config, cursor, pc, cur, stats, channel, decoded, opc, report,
                   pulled, outcome, sent>>

\* from.next() yields None: block_on_all and the thread end.
RecvEnd ==
    /\ rpc = "recv"
    /\ chan = <<>>
    /\ ~isOpen
    /\ rpc' = "term"
    /\ UNCHANGED <<config, cursor, pc, cur, stats, channel, ritem, decoded, decodeErr,
                   opc, report, pulled, outcome, sent>>

\* ------------------------------------------------------------------ process_all
\* Mutant: the join ends with the first worker that finishes.
AnyWorkerDone == \E w \in Workers : pc[w] = "done"

\* all.collect::<()>().await
AllWorkersDone == \A w \in Workers : pc[w] = "done"

\* The join is over; opener.flush() is ready at once (this handle never sent),
\* the handle is dropped at the end of the if-let, and the println! lines run:
\* all of it in the poll that saw the last worker finish.
Report ==
    /\ opc = "join"
    /\ AllWorkersDone
    /\ DropSender
    /\ report' = [total |-> total, count |-> count]
    /\ opc' = "reported"
    /\ UNCHANGED <<config, cursor, pc, cur, stats, chan, parkedQ, receiver,
                   pulled, outcome, sent>>

\* process_all, Mode::run and main return: the process ends, and with it the
\* open_all thread, which nobody joined.
Exit ==
    /\ opc = "reported"
    /\ opc' = "exited"
    /\ rpc' = IF rpc \in {"recv", "decode"} THEN "killed" ELSE rpc
    /\ UNCHANGED <<config, cursor, pc, cur, stats, channel, ritem, decoded, decodeErr,
                   report, pulled, outcome, sent>>

Next ==
    \/ \E w \in Workers : Start(w)
    \/ \E w \in Workers : OpenErr(w)
    \/ \E w \in Workers : OpenOk(w)
    \/ \E w \in Workers : Unrecognized(w)
    \/ \E w \in Workers : Recognized(w)
    \/ \E w \in Workers : FlushDone(w)
    \/ RecvNext
    \/ DecodeDone
    \/ RecvEnd
    \/ Report
    \/ Exit

Spec == Init /\ [][Next]_vars

\* ------------------------------------------------------------------ fairness
\* What one worker can do next.
WorkerStep(w) ==
    \/ Start(w)
    \/ OpenErr(w)
    \/ OpenOk(w)
    \/ Unrecognized(w)
    \/ Recognized(w)
    \/ FlushDone(w)

\* The scan side's executor polls every woken worker, file operations and
\* decodes finish, and the open_all thread is scheduled.
InitFair == Init /\ files <= MaxFairFiles

FairSpec ==
    /\ InitFair
    /\ [][Next]_vars
    /\ \A w \in Workers : WF_vars(WorkerStep(w))
    /\ WF_vars(RecvNext \/ DecodeDone \/ RecvEnd)
    /\ WF_vars(Report)

\* ------------------------------------------------------------------ receiver gone
\* The open_all thread panics (Runtime::new().unwrap() before the first message,
\* or a panic inside open_one): the Receiver is dropped, which closes the
\* channel, wakes every parked sender and drains the queue.
RecvPanic ==
    /\ opc = "join" \/ opc = "reported"
    /\ rpc = "decode" \/ (rpc = "recv" /\ decoded = <<>>)
    /\ rpc' = "panicked"
    /\ ritem' = <<>>
    /\ isOpen' = FALSE
    /\ parkedQ' = <<>>
    /\ chan' = <<>>
    /\ UNCHANGED <<config, cursor, pc, cur, stats, numSenders, decoded, decodeErr,
                   opc, report, pulled, outcome, sent>>

NextPanic == Next \/ RecvPanic

SpecPanic == Init /\ [][NextPanic]_vars

\* ------------------------------------------------------------------ a file that hangs
\* Runs without offload in which the open or the header read of one file never
\* completes.
InitHang == Init /\ ~Offload

Hang(w) ==
    /\ pc[w] \in {"open", "read"}
    /\ \A v \in Workers : pc[v] # "hung"
    /\ pc' = [pc EXCEPT ![w] = "hung"]
    /\ UNCHANGED <<config, cursor, cur, stats, channel, receiver, opc, report,
                   pulled, outcome, sent>>

ScanStep(w) ==
    \/ Start(w)
    \/ OpenErr(w)
    \/ OpenOk(w)
    \/ Unrecognized(w)
    \/ Recognized(w)

NextHang ==
    \/ \E w \in Workers : ScanStep(w)
    \/ \E w \in Workers : Hang(w)
    \/ Report
    \/ Exit

SpecHang ==
    /\ InitHang
    /\ [][NextHang]_vars
    /\ \A w \in Workers : WF_vars(ScanStep(w))

\* ------------------------------------------------------------------ main
RECURSIVE SeqsUpTo(_)
SeqsUpTo(n) ==
    IF n = 0 THEN {<<>>}
    ELSE LET shorter == SeqsUpTo(n - 1)
         IN  shorter \cup {Append(a, t) : a \in shorter, t \in Tokens}

\* The program is started with any command line; process_all is not called yet.
InitArgs ==
    /\ argv \in SeqsUpTo(MaxArgs)
    /\ args = argv
    /\ path = ""
    /\ mpc = "main"
    /\ mode = "none"
    /\ files = 0
    /\ nr = 0
    /\ cap = 0
    /\ iterPos = 0
    /\ buf = <<>>
    /\ holder = None
    /\ pc = [w \in Workers |-> "start"]
    /\ cur = [w \in Workers |-> None]
    /\ total = 0
    /\ count = EmptyCount
    /\ chan = <<>>
    /\ parkedQ = <<>>
    /\ numSenders = 0
    /\ isOpen = FALSE
    /\ rpc = "none"
    /\ ritem = <<>>
    /\ opc = "none"
    /\ report = [total |-> 0, count |-> EmptyCount]
    /\ pulled = <<>>
    /\ outcome = [i \in 1..0 |-> "pending"]
    /\ sent = <<>>
    /\ decoded = <<>>
    /\ decodeErr = FALSE

\* main: args.pop(), or the message and exit(1) when there is nothing to pop.
Main ==
    /\ mpc = "main"
    /\ IF args = <<>>
       THEN /\ mpc' = "no_dir"
            /\ UNCHANGED <<args, path>>
       ELSE /\ path' = args[Len(args)]
            /\ args' = SubSeq(args, 1, Len(args) - 1)
            /\ mpc' = "from_args"
    /\ UNCHANGED <<argv, mode, files, nr, cap, cursor, pc, cur, stats, channel,
                   receiver, opc, report, pulled, outcome, sent>>

\* Mode::from_args: the match on the arguments left of the path.
Mode_from_args(a) ==
    IF a = <<>> THEN "Dir"
    ELSE IF Len(a) = 1 /\ a[1] \in RecurseFlags THEN "Recurse"
    ELSE IF Len(a) = 1 /\ a[1] \in OpenAllFlags THEN "OpenAll"
    ELSE "usage"

From_args ==
    /\ mpc = "from_args"
    /\ LET m == Mode_from_args(args)
       IN  IF m = "usage"
           THEN mpc' = "usage" /\ UNCHANGED mode
           ELSE mpc' = "run" /\ mode' = m
    /\ UNCHANGED <<argv, args, path, files, nr, cap, cursor, pc, cur, stats, channel,
                   receiver, opc, report, pulled, outcome, sent>>

\* Mode::run: Dir ends in an Err when read_dir fails, which main prints before it
\* returns; otherwise process_all is called on what the path yields.
Run ==
    /\ mpc = "run"
    /\ \/ /\ mode = "Dir"
          /\ mpc' = "fatal"
          /\ UNCHANGED <<files, nr, cap, numSenders, isOpen, rpc, opc, outcome>>
       \/ /\ mpc' = "scan"
          /\ opc' = "join"
          /\ files' \in 0..MaxFiles
          /\ nr' \in (IF mode = "Dir" THEN {0} ELSE 1..MaxNr)
          /\ cap' \in (IF mode = "Dir" THEN {0} ELSE Capacities(nr'))
          /\ numSenders' = IF Offload THEN NumWorkers + 1 ELSE 0
          /\ isOpen' = Offload
          /\ rpc' = IF Offload THEN "recv" ELSE "none"
          /\ outcome' = [i \in 1..files' |-> "pending"]
    /\ UNCHANGED <<argv, args, path, mode, cursor, pc, cur, stats, chan, parkedQ,
                   ritem, decoded, decodeErr, report, pulled, sent>>

\* The exit status of the process that ended in main's state m.
ExitStatus(m) == IF m \in {"no_dir", "usage"} THEN 1 ELSE 0

NextArgs == Main \/ From_args \/ Run

SpecArgs == InitArgs /\ [][NextArgs]_vars

\* ------------------------------------------------------------------ properties
Batched == mode # "Dir"
RunComplete == opc # "join"
NumberOf(kind) == Cardinality({i \in 1..files : outcome[i] = kind})

\* C1: every item the source yields is handed to exactly one worker: no item is
\* handed out twice, only items of the source are handed out, none is lost on the
\* way (handed out, buffered and not yet taken add up to the source), and when
\* all workers have terminated the items received are exactly the source's.
C1_Exclusivity ==
    /\ \A i, j \in DOMAIN pulled : i # j => pulled[i][1] # pulled[j][1]
    /\ ItemsOf(pulled) \subseteq 1..files
    /\ \A w \in Workers : cur[w] # None => \E i \in DOMAIN pulled : pulled[i] = <<cur[w], w>>
    /\ Len(pulled) + Len(buf) + (files - iterPos) = files
    /\ AllWorkersDone => ItemsOf(pulled) = 1..files /\ Len(pulled) = files

C1_Witness ==
    /\ AllWorkersDone
    /\ files = MaxFiles
    /\ Batched
    /\ \A w \in Workers : \E i \in DOMAIN pulled : pulled[i][2] = w

\* C2: in every state total is at least the sum of all count entries (also in
\* what was printed): the count entries add up to the number of pulled paths
\* found to have a format, and every pulled path is in total.
C2_TotalBoundsCounts ==
    /\ total >= SumCounts(count)
    /\ report.total >= SumCounts(report.count)
    /\ SumCounts(count) = Cardinality({i \in ItemsOf(pulled) : outcome[i] \in Formats})
    /\ Cardinality(ItemsOf(pulled)) <= total

C2_Witness ==
    /\ \E i \in 1..files : outcome[i] = "noopen"
    /\ \E i \in 1..files : outcome[i] = "unrec"
    /\ SumCounts(count) = 1
    /\ total = 3

\* C3: without offload, total counts exactly the paths pulled so far, and the
\* total that process_all prints is the number of entries of the source.
C3_TotalIsEntries ==
    ~Offload =>
        /\ total = Len(pulled)
        /\ RunComplete => report.total = files

C3_Witness ==
    /\ ~Offload
    /\ opc = "reported"
    /\ files = MaxFiles
    /\ NumberOf("noopen") >= 1
    /\ NumberOf("unrec") >= 1
    /\ \A w \in Workers : \E i \in DOMAIN pulled : pulled[i][2] = w

\* C4: when the run completes, the printed counts have an entry exactly for the
\* formats some file was classified as, and the entry is the number of such files.
C4_CountsPerFormat ==
    RunComplete =>
        /\ DOMAIN report.count = {t \in Formats : NumberOf(t) > 0}
        /\ \A t \in DOMAIN report.count : report.count[t] = NumberOf(t)
        /\ files = 0 => report.total = 0 /\ report.count = EmptyCount

C4_Witness ==
    /\ RunComplete
    /\ files = 3
    /\ NumberOf("Png") = 2
    /\ NumberOf("unrec") = 1
    /\ report = [total |-> 3, count |-> [t \in {"Png"} |-> 2]]

\* C5: pulling from the Batched wrapper yields the items of the source in the
\* source's order (the k-th pull yields the k-th entry), and once a pull has
\* returned None all of them have been yielded.
C5_RoundTrip ==
    Batched =>
        /\ \A i \in DOMAIN pulled : pulled[i][1] = i
        /\ (\E w \in Workers : pc[w] = "done") => Len(pulled) = files

C5_Witness ==
    /\ Batched
    /\ AllWorkersDone
    /\ files = 3
    /\ cap = 2

\* C6 (as claimed): the buffer holds at most nr items, the constructor's argument;
\* a refill pulls at most nr - len(buffer) entries; a pull that finds the buffer
\* non-empty hands out its front and takes nothing from the source.
C6_Original ==
    [][Batched =>
        /\ Len(buf) <= nr /\ Len(buf') <= nr
        /\ iterPos' - iterPos <= nr - Len(buf)
        /\ (buf # <<>> /\ pulled' # pulled) =>
              /\ iterPos' = iterPos
              /\ buf' = Tail(buf)
              /\ pulled'[Len(pulled')][1] = Head(buf)]_vars

\* C6 (amended): the same with the bound the code reads, buf.capacity(), which is
\* at least nr and fixed at construction.
C6_CapacityBound ==
    [][Batched =>
        /\ cap >= nr /\ cap' = cap
        /\ Len(buf) <= cap /\ Len(buf') <= cap
        /\ iterPos' - iterPos <= cap - Len(buf)
        /\ (buf # <<>> /\ pulled' # pulled) =>
              /\ iterPos' = iterPos
              /\ buf' = Tail(buf)
              /\ pulled'[Len(pulled')][1] = Head(buf)]_vars

C6_Witness ==
    /\ Batched
    /\ nr = 2
    /\ cap = 3
    /\ iterPos = 3
    /\ Len(buf) = 2

\* C7: a worker whose send finds ChanBuffer messages unconsumed in the channel
\* suspends in for_file (at the flush of send), and a suspended worker keeps its
\* path and stays suspended until the receiver has taken a message.
SendBy(w) == pc[w] = "read" /\ pc'[w] # "read" /\ Len(sent') = Len(sent) + 1

C7_Backpressure ==
    [][\A w \in Workers :
        /\ (SendBy(w) /\ Len(chan) >= ChanBuffer) => (pc'[w] = "flush" /\ Parked(w)')
        /\ (pc[w] = "flush" /\ Parked(w)) =>
              /\ pc'[w] = "flush"
              /\ cur'[w] = cur[w]
              /\ pulled' = pulled \/ pulled'[Len(pulled')][2] # w
              /\ Parked(w)' \/ Len(decoded') = Len(decoded) + 1]_vars

C7_Witness ==
    /\ rpc = "recv"
    /\ Len(chan) = ChanBuffer + 1
    /\ \E w \in Workers : pc[w] = "flush" /\ Parked(w)

\* C8: with offload, the channel is closed only when every worker has terminated,
\* it is closed in the step of process_all that follows the join, and once
\* closed it stays closed and accepts no further item.
C8_ShutdownOrdering ==
    [][Offload =>
        /\ ~isOpen' => AllWorkersDone'
        /\ (isOpen /\ ~isOpen') => (opc = "join" /\ opc' = "reported")
        /\ ~isOpen => (~isOpen' /\ sent' = sent /\ Len(chan') <= Len(chan))]_vars

C8_Witness ==
    /\ Offload
    /\ ~isOpen
    /\ Len(sent) >= 2
    /\ chan # <<>>

\* C9 (as claimed): with offload, once process_all has printed the statistics
\* (and so also once the process has ended) the open_all thread has terminated.
C9_WaitsForOffload ==
    (Offload /\ RunComplete) => rpc = "term"

\* C10 (as claimed): the offload loop ends only with the channel closed and empty,
\* and when the run is over every work item the channel accepted has been
\* passed to open_one, once each and in the order sent.
C10_CloseThenDrain ==
    /\ rpc = "term" => (~isOpen /\ chan = <<>>)
    /\ opc = "exited" => decoded = sent

\* What a run over this source with these classifier results has to print.
ExpectedReport ==
    [total |-> files,
     count |-> [t \in {f \in Formats : NumberOf(f) > 0} |-> NumberOf(t)]]

\* C11: what a completed run prints is determined by the source and the
\* classifier results alone, so it is the same with and without offload, also
\* after a decode has failed; no step of the open_all thread changes Stats or
\* what was printed.
C11_OffloadTransparency ==
    [][/\ RunComplete' => report' = ExpectedReport'
       /\ (rpc' # rpc \/ decoded' # decoded \/ decodeErr' # decodeErr) =>
              (total' = total /\ count' = count /\ report' = report)]_vars

C11_Witness ==
    /\ Offload
    /\ RunComplete
    /\ rpc = "recv"
    /\ Len(decoded) = 1
    /\ decodeErr
    /\ SumCounts(report.count) = 2
    /\ report.total = 3

\* C12: when the report has been produced every worker has terminated (none is
\* running or suspended), and Stats is still what was printed: nothing is
\* written to it after the report.
C12_JoinBarrier ==
    RunComplete =>
        /\ \A w \in Workers : pc[w] = "done" /\ cur[w] = None
        /\ parkedQ = <<>>
        /\ report.total = total
        /\ report.count = count

C12_Witness ==
    /\ opc = "exited"
    /\ files = MaxFiles
    /\ SumCounts(count) >= 2
    /\ \A w \in Workers : \E i \in DOMAIN pulled : pulled[i][2] = w

\* C13: with the receiver gone, a worker's send fails without a trace: nothing
\* enters the channel, the count already made is kept, the worker pulls its next
\* path (or ends on an exhausted source); no worker is left parked; the pool is
\* never stuck before the report; and the report is what it would be had every
\* send succeeded.
FailedSendBy(w) ==
    pc[w] = "read" /\ pc'[w] # "read" /\ Offload /\ ~isOpen /\ count' # count

C13_FailedSendDropped ==
    /\ [](rpc = "panicked" =>
            /\ \A w \in Workers : pc[w] = "flush" => ENABLED FlushDone(w)
            /\ opc = "join" => ENABLED NextPanic)
    /\ [][/\ \A w \in Workers : FailedSendBy(w) =>
                /\ sent' = sent /\ chan' = chan
                /\ SumCounts(count') = SumCounts(count) + 1
                /\ total' >= total
                /\ \/ pc'[w] = "open" /\ pulled' # pulled
                   \/ pc'[w] = "done" /\ buf = <<>> /\ iterPos = files
          /\ rpc' = "panicked" => (parkedQ' = <<>> /\ ~isOpen')
          /\ RunComplete' =>
                (report' = ExpectedReport' /\ \A w \in Workers : pc'[w] = "done")]_vars

C13_Witness ==
    /\ rpc = "panicked"
    /\ RunComplete
    /\ Len(sent) = 1
    /\ SumCounts(report.count) = 3

\* C14 (as claimed): a command line without a directory argument (empty, or
\* flags only) ends in the usage error with a non-zero status: no Mode is run,
\* no scan is started, and the process does not end with status 0.
NoDirArg(a) == \A i \in DOMAIN a : a[i] \in RecurseFlags \cup OpenAllFlags

C14_NoDirIsUsageError ==
    NoDirArg(argv) =>
        /\ opc = "none"
        /\ mpc \notin {"scan", "fatal"}
        /\ mpc \in {"no_dir", "usage", "fatal"} => ExitStatus(mpc) = 1

\* C15: the items a worker receives are in the source's order.
C15_OrderWithinCaller ==
    \A i, j \in DOMAIN pulled :
        (i < j /\ pulled[i][2] = pulled[j][2]) => pulled[i][1] < pulled[j][1]

C15_Witness ==
    /\ Batched
    /\ cap >= 2
    /\ Len(pulled) = 3
    /\ pulled[1][2] = pulled[3][2]
    /\ pulled[1][2] # pulled[2][2]

\* C16: a pull returns None only with the buffer and the source both empty; from
\* then on no pull hands out an item; a worker that saw None has terminated and
\* stays terminated.
C16_ExhaustionTerminal ==
    [][/\ (\E w \in Workers : pc[w] = "done") =>
              /\ pulled' = pulled
              /\ buf = <<>> /\ buf' = <<>>
              /\ iterPos = files /\ iterPos' = files
       /\ \A w \in Workers :
              /\ pc[w] = "done" => pc'[w] = "done"
              /\ (pc[w] # "done" /\ pc'[w] = "done") => (buf = <<>> /\ iterPos = files)]_vars

C16_Witness ==
    /\ Batched
    /\ files = MaxFiles
    /\ \E w \in Workers : pc[w] = "done"
    /\ \E w \in Workers : pc[w] = "read"

\* C17: under fair scheduling the run reaches its report, and whenever it has,
\* every worker has terminated and the source and the buffer are exhausted.
C17_Termination ==
    /\ <>RunComplete
    /\ [](RunComplete =>
            /\ AllWorkersDone
            /\ buf = <<>>
            /\ iterPos = files
            /\ Len(pulled) = files)

C17_Witness ==
    /\ Offload
    /\ opc = "reported"
    /\ rpc = "term"
    /\ files = MaxFairFiles
    /\ Len(decoded) = MaxFairFiles
    /\ \A w \in Workers : \E i \in DOMAIN pulled : pulled[i][2] = w

\* C18: without offload, once a worker hangs on a file, every other path of the
\* source is still eventually pulled, counted in total and classified by the
\* other workers.
OnlyHungPending ==
    /\ total = files
    /\ Len(pulled) = files
    /\ \A i \in 1..files :
          outcome[i] = "pending" => \E w \in Workers : pc[w] = "hung" /\ cur[w] = i

C18_HangIsolation ==
    (\E w \in Workers : pc[w] = "hung") ~> OnlyHungPending

C18_Witness ==
    /\ \E w \in Workers : pc[w] = "hung" /\ cur[w] = 1
    /\ \A w \in Workers : pc[w] \in {"hung", "done"}
    /\ files = MaxFiles
    /\ OnlyHungPending

\* C19 (as claimed): the channel never holds more than ChanBuffer messages.
C19_Original ==
    Len(chan) <= ChanBuffer

\* C19 (amended): the channel holds at most ChanBuffer messages plus one for
\* every sender that is parked, so never more than ChanBuffer + NumWorkers,
\* whatever the number of files.
C19_OccupancyBound ==
    /\ Len(chan) <= ChanBuffer + Len(parkedQ)
    /\ Len(parkedQ) <= NumWorkers
    /\ \A i, j \in DOMAIN parkedQ : i # j => parkedQ[i] # parkedQ[j]
    /\ \A i \in DOMAIN parkedQ : pc[parkedQ[i]] = "flush"

C19_Witness ==
    /\ Len(chan) = ChanBuffer + NumWorkers
    /\ Len(parkedQ) = NumWorkers

\* C20: in every state nobody holds the borrow of the supplier, whatever the
\* workers are suspended on; no pull found it borrowed; and total counts
\* exactly the paths pulled, the two changing in the same step.
C20_BorrowNotHeld ==
    /\ holder = None
    /\ \A w \in Workers : pc[w] # "panic"
    /\ total = Len(pulled)

C20_Witness ==
    /\ \E w \in Workers : pc[w] = "open"
    /\ \E w \in Workers : pc[w] = "flush"
    /\ Len(pulled) = MaxFiles

====
